---- MODULE Spec2Model ----
(***************************************************************************)
(* Streaming response transcoder of the OpenAI -> NVIDIA NIM proxy         *)
(* (src/server.js, streaming branch of POST /v1/chat/completions).         *)
(*                                                                         *)
(* Text is modelled as a sequence of tokens.  A token is a run of bytes    *)
(* that the model never looks inside: the event prefix, the newline, the   *)
(* fixed pieces of the JSON syntax, and the text atoms of string values.   *)
(* Chunks split the byte stream at token boundaries; the two bytes of one  *)
(* multi-byte character are two tokens, so a chunk may end between them.   *)
(***************************************************************************)
EXTENDS Integers, Sequences, FiniteSets, TLC

\* ------------------------------------------------------------------ bounds
MaxLines == 3      \* lines the backend sends on one request
MaxChunk == 3      \* tokens in one chunk of the backend's stream
MaxSignals == 4    \* signals delivered by a source that follows no protocol
MaxApply == 2      \* events fed to the combiner on its own
MaxOffLines == 2   \* lines of a stream when reasoning display is off
MaxConcLines == 1  \* lines of each stream when two requests run together
MaxByteLines == 2  \* lines of a stream that carries multi-byte characters
MaxCancelLines == 2  \* lines of a stream whose client may disconnect
MaxLiveLines == 2  \* lines of a stream whose source is sure to finish

\* ------------------------------------------------------------------ tokens
PREFIX == "data: "
NL == "\n"
SPACE == " "
COMMENT == ": keep-alive"
DONE == "[DONE]"
JUNK == "{not json"
NULLJSON == "null"
NODELTA == "{\"choices\":[]}"
DOPEN == "{\"choices\":[{\"delta\":{"
DCLOSE == "}}]}"
RSTR == "\"reasoning_content\":\""
CSTR == "\"content\":\""
RNULL == "\"reasoning_content\":null"
CNULL == "\"content\":null"
QEND == "\""
COMMA == ","
ERRHEAD == "{\"error\": \""
ERRTAIL == "\"}"

\* the markers the transcoder puts into the text, as the decoded strings
OPENMARK == "<think>\n"
CLOSEMARK == "\n</think>\n\n"
ENDMARK == "\n</think>"

\* text atoms a backend may send inside a string value
Atoms == {"ab", "X", DONE}

\* JSON string escaping of one atom: a newline is written as backslash-n
Escape(a) ==
  CASE a = OPENMARK -> "<think>\\n"
    [] a = CLOSEMARK -> "\\n</think>\\n\\n"
    [] a = ENDMARK -> "\\n</think>"
    [] OTHER -> a

Unescape(t) ==
  CASE t = "<think>\\n" -> OPENMARK
    [] t = "\\n</think>\\n\\n" -> CLOSEMARK
    [] t = "\\n</think>" -> ENDMARK
    [] OTHER -> t

SyntaxTokens ==
  {PREFIX, NL, SPACE, COMMENT, JUNK, NULLJSON, NODELTA, DOPEN, DCLOSE,
   RSTR, CSTR, RNULL, CNULL, QEND, COMMA, ERRHEAD, ERRTAIL}

\* ------------------------------------------------------------- JS values
Undefined == [tag |-> "undefined", text |-> <<>>]
Null == [tag |-> "null", text |-> <<>>]
Str(s) == [tag |-> "string", text |-> s]

\* JavaScript truthiness of undefined, null and strings
Truthy(v) == v.tag = "string" /\ v.text # <<>>

\* a JS object with string keys: its properties in insertion order
Has(obj, k) == \E i \in 1..Len(obj) : obj[i].k = k

Get(obj, k) ==
  IF Has(obj, k) THEN (CHOOSE p \in {obj[i] : i \in 1..Len(obj)} : p.k = k).v
  ELSE Undefined

Set(obj, k, v) ==
  IF Has(obj, k)
  THEN [i \in 1..Len(obj) |-> IF obj[i].k = k THEN [k |-> k, v |-> v] ELSE obj[i]]
  ELSE Append(obj, [k |-> k, v |-> v])

Delete(obj, k) == SelectSeq(obj, LAMBDA p : p.k # k)

\* ------------------------------------------------------------- JSON.parse
ParseFail == [ok |-> FALSE, kind |-> "none", delta |-> <<>>]
ParsedNull == [ok |-> TRUE, kind |-> "null", delta |-> <<>>]
ParsedNoDelta == [ok |-> TRUE, kind |-> "nodelta", delta |-> <<>>]
ParsedDelta(d) == [ok |-> TRUE, kind |-> "delta", delta |-> d]

FieldFail == [ok |-> FALSE, k |-> "", v |-> Undefined, rest |-> <<>>]

\* index of the first closing quote of ts, 0 when there is none
QuoteAt(ts) ==
  IF \E i \in 1..Len(ts) : ts[i] = QEND
  THEN CHOOSE i \in 1..Len(ts) : ts[i] = QEND /\ \A j \in 1..(i-1) : ts[j] # QEND
  ELSE 0

\* one "key":value member at the front of ts
ParseField(ts) ==
  IF ts = <<>> THEN FieldFail
  ELSE LET h == Head(ts)
           q == QuoteAt(ts)
           body == SubSeq(ts, 2, q - 1)
           key == IF h \in {RSTR, RNULL} THEN "reasoning_content" ELSE "content"
       IN  IF h \in {RNULL, CNULL}
           THEN [ok |-> TRUE, k |-> key, v |-> Null, rest |-> Tail(ts)]
           ELSE IF h \in {RSTR, CSTR} /\ q > 0
                   /\ \A i \in 1..Len(body) : body[i] \notin SyntaxTokens
           THEN [ok |-> TRUE, k |-> key,
                 v |-> Str([i \in 1..Len(body) |-> Unescape(body[i])]),
                 rest |-> SubSeq(ts, q + 1, Len(ts))]
           ELSE FieldFail

FieldsFail == [ok |-> FALSE, obj |-> <<>>]

\* the object with member one in front of the members more: a key that comes
\* again keeps its first place and takes its last value
AddMember(one, more) ==
  IF ~more.ok THEN FieldsFail
  ELSE [ok |-> TRUE,
        obj |-> IF Has(more.obj, one.k)
                THEN <<[k |-> one.k, v |-> Get(more.obj, one.k)]>>
                       \o Delete(more.obj, one.k)
                ELSE <<[k |-> one.k, v |-> one.v]>> \o more.obj]

RECURSIVE ParseFields(_)
RECURSIVE ParseMore(_)
\* the members after the member one: none, or a comma and at least one more
ParseMore(one) ==
  IF ~one.ok THEN FieldsFail
  ELSE IF one.rest = <<>> THEN [ok |-> TRUE, obj |-> <<[k |-> one.k, v |-> one.v]>>]
  ELSE IF Head(one.rest) # COMMA THEN FieldsFail
  ELSE AddMember(one, ParseFields(Tail(one.rest)))

\* the members of an object, comma separated: the object built from them
ParseFields(ts) == ParseMore(ParseField(ts))

ParsedFields(f) == IF f.ok THEN ParsedDelta(f.obj) ELSE ParseFail

JSONParse(ts) ==
  IF ts = <<NULLJSON>> THEN ParsedNull
  ELSE IF ts = <<NODELTA>> THEN ParsedNoDelta
  ELSE IF Len(ts) >= 2 /\ Head(ts) = DOPEN /\ ts[Len(ts)] = DCLOSE
  THEN IF Len(ts) = 2 THEN ParsedDelta(<<>>)
       ELSE ParsedFields(ParseFields(SubSeq(ts, 2, Len(ts) - 1)))
  ELSE ParseFail

\* --------------------------------------------------------- JSON.stringify
StringifyValue(k, v) ==
  IF v.tag = "null"
  THEN <<IF k = "reasoning_content" THEN RNULL ELSE CNULL>>
  ELSE <<IF k = "reasoning_content" THEN RSTR ELSE CSTR>>
         \o [i \in 1..Len(v.text) |-> Escape(v.text[i])] \o <<QEND>>

RECURSIVE StringifyFields(_)
StringifyFields(obj) ==
  IF obj = <<>> THEN <<>>
  ELSE StringifyValue(obj[1].k, obj[1].v)
         \o (IF Len(obj) = 1 THEN <<>> ELSE <<COMMA>> \o StringifyFields(Tail(obj)))

JSONStringify(data) ==
  CASE data.kind = "null" -> <<NULLJSON>>
    [] data.kind = "nodelta" -> <<NODELTA>>
    [] data.kind = "delta" -> <<DOPEN>> \o StringifyFields(data.delta) \o <<DCLOSE>>

\* --------------------------------------------------------- chunk.toString()
\* the two bytes of one two-byte UTF-8 character, the character they decode
\* to, and the replacement character U+FFFD
UTF8LEAD == "0xC3"
UTF8CONT == "0xA9"
EACUTE == "e-acute"
REPLACEMENT == "U+FFFD"

RECURSIVE Flatten(_)
Flatten(ss) == IF ss = <<>> THEN <<>> ELSE Head(ss) \o Flatten(Tail(ss))

\* what the byte at place i of a chunk decodes to: a lead byte and the
\* continuation byte after it give the character, a lead byte with no
\* continuation byte in the same chunk and a continuation byte with no lead
\* byte before it give U+FFFD each
DecodeAt(chunk, i) ==
  IF chunk[i] = UTF8LEAD
  THEN IF i < Len(chunk) /\ chunk[i + 1] = UTF8CONT THEN <<EACUTE>> ELSE <<REPLACEMENT>>
  ELSE IF chunk[i] = UTF8CONT
  THEN IF i > 1 /\ chunk[i - 1] = UTF8LEAD THEN <<>> ELSE <<REPLACEMENT>>
  ELSE <<chunk[i]>>

\* Buffer.prototype.toString(): UTF-8 decoding of the bytes of one chunk
ChunkToString(chunk) == Flatten([i \in 1..Len(chunk) |-> DecodeAt(chunk, i)])

\* ------------------------------------------------------------ line framer
RECURSIVE Split(_)
\* buffer.split('\n'): the segments between newlines, one more than newlines
Split(ts) ==
  IF \E i \in 1..Len(ts) : ts[i] = NL
  THEN LET i == CHOOSE n \in 1..Len(ts) : ts[n] = NL /\ \A j \in 1..(n-1) : ts[j] # NL
       IN  <<SubSeq(ts, 1, i - 1)>> \o Split(SubSeq(ts, i + 1, Len(ts)))
  ELSE <<ts>>

\* all elements of a sequence but the last, and the last
Front(segs) == SubSeq(segs, 1, Len(segs) - 1)
Last(segs) == segs[Len(segs)]

\* the complete lines of a buffer: all segments but the last
CompleteLines(buf) == Front(Split(buf))

\* lines.pop() || '': the segment after the last newline
Remainder(buf) == Last(Split(buf))

\* ------------------------------------------------------- frame classifier
\* !line.trim()
IsBlank(line) == \A i \in 1..Len(line) : line[i] = SPACE

\* line.startsWith('data: ')
HasPrefix(line) == Len(line) >= 1 /\ line[1] = PREFIX

\* line.includes('[DONE]')
IncludesDone(line) == \E i \in 1..Len(line) : line[i] = DONE

\* line.slice(6)
Payload(line) == Tail(line)

\* ------------------------------------------------- reasoning/content combiner
\* combinedContent and reasoningStarted after the first if/else-if
CombineReasoning(reasoning, started) ==
  IF Truthy(reasoning) /\ ~started
  THEN [text |-> <<OPENMARK>> \o reasoning.text, started |-> TRUE]
  ELSE IF Truthy(reasoning)
  THEN [text |-> reasoning.text, started |-> started]
  ELSE [text |-> <<>>, started |-> started]

\* CombineContent with the close marker left out when content follows reasoning
CombineContentSkipsClose(first, content) ==
  IF Truthy(content)
  THEN [text |-> first.text \o content.text, started |-> FALSE]
  ELSE first

\* combinedContent and reasoningStarted after the second if/else-if
CombineContent(first, content) ==
  IF Truthy(content) /\ first.started
  THEN [text |-> first.text \o <<CLOSEMARK>> \o content.text, started |-> FALSE]
  ELSE IF Truthy(content)
  THEN [text |-> first.text \o content.text, started |-> first.started]
  ELSE first

\* combinedContent and reasoningStarted after the two if/else-if statements
Combine(reasoning, content, started) ==
  CombineContent(CombineReasoning(reasoning, started), content)

\* if (combinedContent): the content replaced and reasoning_content deleted
Replace(delta, c) ==
  [delta |-> IF c.text # <<>>
             THEN Delete(Set(delta, "content", Str(c.text)), "reasoning_content")
             ELSE delta,
   started |-> c.started]

\* the delta after the SHOW_REASONING branch
ShowBranch(delta, started) ==
  Replace(delta, Combine(Get(delta, "reasoning_content"), Get(delta, "content"), started))

\* HideBranch without the else that writes the empty string
HideBranchNoDefault(delta, started) ==
  [delta |-> Delete(IF Truthy(Get(delta, "content"))
                    THEN Set(delta, "content", Get(delta, "content"))
                    ELSE delta,
                    "reasoning_content"),
   started |-> started]

\* the delta after the else branch (reasoning not shown)
HideBranch(delta, started) ==
  [delta |-> Delete(IF Truthy(Get(delta, "content"))
                    THEN Set(delta, "content", Get(delta, "content"))
                    ELSE Set(delta, "content", Str(<<>>)),
                    "reasoning_content"),
   started |-> started]

\* the parsed object and the flag after the if (data.choices?.[0]?.delta) block
Transformed(r) == [data |-> ParsedDelta(r.delta), started |-> r.started]

TransformData(data, started, show) ==
  IF data.kind = "delta"
  THEN Transformed(IF show THEN ShowBranch(data.delta, started)
                   ELSE HideBranch(data.delta, started))
  ELSE [data |-> data, started |-> started]

\* ------------------------------------------------------------ frames written
DoneFrame == <<PREFIX, DONE, NL, NL>>
DataFrame(data) == <<PREFIX>> \o JSONStringify(data) \o <<NL, NL>>
RawFrame(line) == line \o <<NL, NL>>
CloseFrame == <<PREFIX, DOPEN, CSTR, Escape(ENDMARK), QEND, DCLOSE, NL, NL>>
ErrorFrame(msg) == <<PREFIX, ERRHEAD, msg, ERRTAIL, NL, NL>>

\* ------------------------------------------------------- one line of forEach
\* the frames written for one line and the flag after it
\* the write of the re-serialized event
WriteData(t) == [out |-> <<DataFrame(t.data)>>, started |-> t.started, class |-> "parsed"]

\* TryParsed with a catch block that also resets the reasoning-open flag
TryParsedCatchResets(line, data, started, show) ==
  IF ~data.ok \/ data.kind = "null"
  THEN [out |-> <<RawFrame(line)>>, started |-> FALSE, class |-> "unparseable"]
  ELSE WriteData(TransformData(data, started, show))

\* TryParsed with a catch block that swallows the failure and writes nothing
TryParsedSilentCatch(line, data, started, show) ==
  IF ~data.ok \/ data.kind = "null"
  THEN [out |-> <<>>, started |-> started, class |-> "unparseable"]
  ELSE WriteData(TransformData(data, started, show))

\* the try block around JSON.parse, and its catch
TryParsed(line, data, started, show) ==
  IF ~data.ok \/ data.kind = "null"
  THEN [out |-> <<RawFrame(line)>>, started |-> started, class |-> "unparseable"]
  ELSE WriteData(TransformData(data, started, show))

ProcessLine(line, started, show) ==
  IF IsBlank(line) THEN [out |-> <<>>, started |-> started, class |-> "blank"]
  ELSE IF ~HasPrefix(line) THEN [out |-> <<>>, started |-> started, class |-> "ignored"]
  ELSE IF IncludesDone(line)
  THEN [out |-> <<DoneFrame>>, started |-> started, class |-> "terminate"]
  ELSE TryParsed(line, JSONParse(Payload(line)), started, show)

\* the effect of the first line put in front of the effect of the others
Sequenced(line, started, one, more) ==
  [out |-> one.out \o more.out,
   started |-> more.started,
   log |-> <<[line |-> line, out |-> one.out, class |-> one.class,
              before |-> started, after |-> one.started]>> \o more.log]

RECURSIVE ProcessLines(_, _, _)
RECURSIVE ProcessRest(_, _, _, _)
\* the lines after the first, processed with the flag the first one left
ProcessRest(lines, started, show, one) ==
  Sequenced(Head(lines), started, one, ProcessLines(Tail(lines), one.started, show))

\* lines.forEach: frames written, flag, and the record of each line
ProcessLines(lines, started, show) ==
  IF lines = <<>> THEN [out |-> <<>>, started |-> started, log |-> <<>>]
  ELSE ProcessRest(lines, started, show, ProcessLine(Head(lines), started, show))

\* ------------------------------------------------------------------- state
Reqs == {"r1", "r2"}

VARIABLES
  SHOW_REASONING,    \* the process-wide reasoning display toggle
  buffer,            \* per request: the line buffer
  reasoningStarted,  \* per request: the reasoning-open flag
  hasStarted,        \* per request: a chunk has been seen
  res,               \* per request: the HTTP response (the sink)
  source,            \* per request: response.data, the backend's stream
  log,               \* per request: history of the lines given to forEach
  signals,           \* signals delivered so far by a protocol-free source
  combiner           \* the combiner driven on its own: last event in and out

vars == <<SHOW_REASONING, buffer, reasoningStarted, hasStarted, res, source,
          log, signals, combiner>>

StreamHeaders == {"Content-Type", "Cache-Control", "Connection", "X-Accel-Buffering"}

\* the response of a streaming request once the handlers are registered
NewRes == [headers |-> StreamHeaders, flushed |-> 0, headersAtFirstWrite |-> {},
           writes |-> <<>>, ended |-> FALSE, endCalls |-> 0, lateWrites |-> 0,
           disconnected |-> FALSE, deadWrites |-> 0, writesAtFlush |-> -1]

\* the response of a request that is not streaming
NoRes == [headers |-> {}, flushed |-> 0, headersAtFirstWrite |-> {},
          writes |-> <<>>, ended |-> FALSE, endCalls |-> 0, lateWrites |-> 0,
          disconnected |-> FALSE, deadWrites |-> 0, writesAtFlush |-> -1]

\* res.write(frame): after res.end(), or once the client has gone, the frame
\* does not reach the client
Write(r, frame) ==
  IF r.ended THEN [r EXCEPT !.lateWrites = @ + 1]
  ELSE IF r.disconnected THEN [r EXCEPT !.deadWrites = @ + 1]
  ELSE [r EXCEPT !.writes = Append(@, frame),
                 !.headersAtFirstWrite = IF r.writes = <<>> THEN r.headers ELSE @]

RECURSIVE WriteAll(_, _)
WriteAll(r, frames) ==
  IF frames = <<>> THEN r ELSE WriteAll(Write(r, Head(frames)), Tail(frames))

\* res.end()
EndRes(r) == [r EXCEPT !.ended = TRUE, !.endCalls = @ + 1]

\* FlushOnce without the hasStarted guard: the headers are flushed on every
\* chunk
FlushEveryChunk(r, started) ==
  [r EXCEPT !.flushed = @ + 1, !.writesAtFlush = Len(r.writes)]

\* res.flushHeaders() on the first chunk only; writesAtFlush records how many
\* frames had been written when it ran
FlushOnce(r, started) ==
  IF started THEN r
  ELSE [r EXCEPT !.flushed = @ + 1, !.writesAtFlush = Len(r.writes)]

\* ---------------------------------------------------------------- handlers
\* response.data.on('data', chunk => ...)
Processed(q, p) ==
  /\ reasoningStarted' = [reasoningStarted EXCEPT ![q] = p.started]
  /\ res' = [res EXCEPT ![q] = WriteAll(FlushOnce(@, hasStarted[q]), p.out)]
  /\ log' = [log EXCEPT ![q] = @ \o p.log]

\* OnData with the line buffer declared outside the request handler, so that
\* all requests append to the same buffer
OnDataSharedBuffer(q, chunk) ==
  /\ hasStarted' = [hasStarted EXCEPT ![q] = TRUE]
  /\ buffer' = [o \in Reqs |-> Remainder(buffer[q] \o ChunkToString(chunk))]
  /\ Processed(q, ProcessLines(CompleteLines(buffer[q] \o ChunkToString(chunk)),
                               reasoningStarted[q], SHOW_REASONING))

OnData(q, chunk) ==
  /\ hasStarted' = [hasStarted EXCEPT ![q] = TRUE]
  /\ buffer' = [buffer EXCEPT ![q] = Remainder(@ \o ChunkToString(chunk))]
  /\ Processed(q, ProcessLines(CompleteLines(buffer[q] \o ChunkToString(chunk)),
                               reasoningStarted[q], SHOW_REASONING))

\* OnEnd with the sentinel written before the auto-close frame
OnEndSentinelFirst(q) ==
  /\ res' = [res EXCEPT ![q] =
               EndRes(IF reasoningStarted[q]
                      THEN Write(Write(@, DoneFrame), CloseFrame)
                      ELSE Write(@, DoneFrame))]
  /\ UNCHANGED <<buffer, reasoningStarted, hasStarted, log>>

\* OnEnd with the retained remainder handled as a last line before the
\* stream is finalized
OnEndFlushesBuffer(q) ==
  /\ res' = [res EXCEPT ![q] =
               EndRes(Write(
                 IF ProcessLine(buffer[q], reasoningStarted[q], SHOW_REASONING).started
                 THEN Write(WriteAll(@, ProcessLine(buffer[q], reasoningStarted[q],
                                                    SHOW_REASONING).out),
                            CloseFrame)
                 ELSE WriteAll(@, ProcessLine(buffer[q], reasoningStarted[q],
                                              SHOW_REASONING).out),
                 DoneFrame))]
  /\ UNCHANGED <<buffer, reasoningStarted, hasStarted, log>>

\* response.data.on('end', () => ...)
OnEnd(q) ==
  /\ res' = [res EXCEPT ![q] =
               EndRes(Write(IF reasoningStarted[q] THEN Write(@, CloseFrame) ELSE @,
                            DoneFrame))]
  /\ UNCHANGED <<buffer, reasoningStarted, hasStarted, log>>

\* OnError without the call of res.end()
OnErrorLeavesOpen(q, msg) ==
  /\ res' = [res EXCEPT ![q] = Write(Write(@, ErrorFrame(msg)), DoneFrame)]
  /\ UNCHANGED <<buffer, reasoningStarted, hasStarted, log>>

\* response.data.on('error', err => ...)
OnError(q, msg) ==
  /\ res' = [res EXCEPT ![q] = EndRes(Write(Write(@, ErrorFrame(msg)), DoneFrame))]
  /\ UNCHANGED <<buffer, reasoningStarted, hasStarted, log>>

\* ------------------------------------------------------------- the backend
ErrMsgs == {"aborted", "socket hang up"}

Min(a, b) == IF a < b THEN a ELSE b

\* response.data of a streaming request: what it still has to deliver, what it
\* has delivered, and the message of the error it signalled
NewSource(s) == [state |-> "flowing", remaining |-> s, sent |-> <<>>, error |-> ""]
NoSource == [state |-> "none", remaining |-> <<>>, sent |-> <<>>, error |-> ""]

\* a backend stream that follows the stream protocol: chunks, then one end or
\* one error, then nothing
Data(q) ==
  /\ source[q].state = "flowing"
  /\ \E n \in 1..Min(MaxChunk, Len(source[q].remaining)) :
       /\ OnData(q, SubSeq(source[q].remaining, 1, n))
       /\ source' = [source EXCEPT ![q].remaining = SubSeq(@, n + 1, Len(@)),
                                   ![q].sent = @ \o SubSeq(source[q].remaining, 1, n)]
  /\ UNCHANGED <<SHOW_REASONING, signals, combiner>>

End(q) ==
  /\ source[q].state = "flowing"
  /\ source[q].remaining = <<>>
  /\ OnEnd(q)
  /\ source' = [source EXCEPT ![q].state = "ended"]
  /\ UNCHANGED <<SHOW_REASONING, signals, combiner>>

Error(q) ==
  /\ source[q].state = "flowing"
  /\ \E msg \in ErrMsgs :
       /\ OnError(q, msg)
       /\ source' = [source EXCEPT ![q].state = "errored", ![q].error = msg]
  /\ UNCHANGED <<SHOW_REASONING, signals, combiner>>

Next == \E q \in Reqs : Data(q) \/ End(q) \/ Error(q)

\* ------------------------------------------------------------ the streams
LineDone == <<PREFIX, DONE>>
LineReasoning == <<PREFIX, DOPEN, RSTR, "ab", QEND, DCLOSE>>
LineContent == <<PREFIX, DOPEN, CSTR, "X", QEND, DCLOSE>>
LineBoth == <<PREFIX, DOPEN, RSTR, "ab", QEND, COMMA, CSTR, "X", QEND, DCLOSE>>
LineContentDone == <<PREFIX, DOPEN, CSTR, DONE, QEND, DCLOSE>>
LineJunk == <<PREFIX, JUNK>>
LineJunkDone == <<PREFIX, JUNK, DONE>>
LineNoDelta == <<PREFIX, NODELTA>>
LineNull == <<PREFIX, NULLJSON>>
LineBlank == <<>>
LineComment == <<COMMENT>>

Lines == {LineDone, LineReasoning, LineContent, LineBoth, LineContentDone,
          LineJunk, LineJunkDone, LineNoDelta, LineNull, LineBlank, LineComment}

RECURSIVE Join(_, _)
\* the lines of a stream, each followed by a newline, the last one only if
\* terminated
Join(ls, terminated) ==
  IF ls = <<>> THEN <<>>
  ELSE IF Len(ls) = 1 THEN Head(ls) \o (IF terminated THEN <<NL>> ELSE <<>>)
  ELSE Head(ls) \o <<NL>> \o Join(Tail(ls), terminated)

Streams(lineSet, max) ==
  UNION {{Join(ls, t) : ls \in [1..n -> lineSet], t \in BOOLEAN} : n \in 0..max}

NoCombiner == [show |-> FALSE, before |-> FALSE, in |-> <<>>, out |-> <<>>,
               after |-> FALSE, n |-> 0]

\* one streaming request fed a stream over lineSet; the other request idle
InitOne(show, lineSet, max) ==
  /\ SHOW_REASONING = show
  /\ buffer = [q \in Reqs |-> <<>>]
  /\ reasoningStarted = [q \in Reqs |-> FALSE]
  /\ hasStarted = [q \in Reqs |-> FALSE]
  /\ res = [q \in Reqs |-> IF q = "r1" THEN NewRes ELSE NoRes]
  /\ \E s \in Streams(lineSet, max) :
       source = [q \in Reqs |-> IF q = "r1" THEN NewSource(s) ELSE NoSource]
  /\ log = [q \in Reqs |-> <<>>]
  /\ signals = 0
  /\ combiner = NoCombiner

Init == InitOne(TRUE, Lines, MaxLines)

Spec == Init /\ [][Next]_vars

\* --------------------------------------------- reasoning display disabled
\* the values one field of an inbound delta can have: absent, null, "", text
FieldValues(text) == {Undefined, Null, Str(<<>>), Str(<<text>>)}

Field(k, v) == IF v.tag = "undefined" THEN <<>> ELSE <<[k |-> k, v |-> v]>>

\* the deltas with every combination of the two fields, in either key order
Deltas ==
  {Field("reasoning_content", r) \o Field("content", c) :
     r \in FieldValues("ab"), c \in FieldValues("X")}
  \cup {Field("content", c) \o Field("reasoning_content", r) :
     r \in FieldValues("ab"), c \in FieldValues("X")}

DeltaLine(d) == <<PREFIX>> \o JSONStringify(ParsedDelta(d))

\* the lines of a stream: the key order the backend uses, reasoning first
OffLines ==
  {DeltaLine(Field("reasoning_content", r) \o Field("content", c)) :
     r \in FieldValues("ab"), c \in FieldValues("X")}
  \cup {LineNoDelta, LineJunk, LineDone}

InitOff == InitOne(FALSE, OffLines, MaxOffLines)

SpecOff == InitOff /\ [][Next]_vars

\* ------------------------------------------------- two concurrent requests
ConcLines == {LineReasoning, LineContent}

InitConc ==
  /\ SHOW_REASONING = TRUE
  /\ buffer = [q \in Reqs |-> <<>>]
  /\ reasoningStarted = [q \in Reqs |-> FALSE]
  /\ hasStarted = [q \in Reqs |-> FALSE]
  /\ res = [q \in Reqs |-> NewRes]
  /\ source \in [Reqs -> {NewSource(s) : s \in Streams(ConcLines, MaxConcLines)}]
  /\ log = [q \in Reqs |-> <<>>]
  /\ signals = 0
  /\ combiner = NoCombiner

SpecConc == InitConc /\ [][Next]_vars

\* ------------------------------------ a stream with multi-byte characters
\* a content event whose text is one two-byte character, as bytes on the wire
LineAccent == <<PREFIX, DOPEN, CSTR, UTF8LEAD, UTF8CONT, QEND, DCLOSE>>

ByteLines == {LineAccent, LineReasoning, LineContent, LineDone, LineBlank}

InitBytes == InitOne(TRUE, ByteLines, MaxByteLines)

SpecBytes == InitBytes /\ [][Next]_vars

\* ------------------------------------------------ the client disconnects
\* the client closes the connection of a request that is still streaming: no
\* listener for 'close' is registered on req or res and response.data is never
\* destroyed, so nothing but the connection changes
Disconnect(q) ==
  /\ source[q].state = "flowing"
  /\ ~res[q].disconnected
  /\ res' = [res EXCEPT ![q].disconnected = TRUE]
  /\ UNCHANGED <<SHOW_REASONING, buffer, reasoningStarted, hasStarted, source,
                 log, signals, combiner>>

NextCancel == Next \/ \E q \in Reqs : Disconnect(q)

CancelLines == {LineReasoning, LineContent, LineDone}

InitCancel == InitOne(TRUE, CancelLines, MaxCancelLines)

SpecCancel == InitCancel /\ [][NextCancel]_vars

\* ------------------------------------- a source that is sure to finish
\* the end or error signal of some request
Finish == \E q \in Reqs : End(q) \/ Error(q)

LiveLines == {LineReasoning, LineContent, LineDone}

InitLive == InitOne(TRUE, LiveLines, MaxLiveLines)

\* the backend does not hang for ever: a stream that is flowing eventually
\* signals end or error
SpecLive == InitLive /\ [][Next]_vars /\ WF_vars(Finish)

\* ------------------------------------- a source that follows no protocol
\* the handlers stay registered for the life of the request, so every signal
\* the source emits runs its handler, whatever came before
SignalChunks == {LineReasoning \o <<NL>>, LineContent \o <<NL>>, LineDone \o <<NL>>}

AnyData(q) ==
  /\ source[q].state # "none"
  /\ signals < MaxSignals
  /\ \E chunk \in SignalChunks :
       /\ OnData(q, chunk)
       /\ source' = [source EXCEPT ![q].sent = @ \o chunk]
  /\ signals' = signals + 1
  /\ UNCHANGED <<SHOW_REASONING, combiner>>

AnyEnd(q) ==
  /\ source[q].state # "none"
  /\ signals < MaxSignals
  /\ OnEnd(q)
  /\ source' = [source EXCEPT ![q].state = "ended"]
  /\ signals' = signals + 1
  /\ UNCHANGED <<SHOW_REASONING, combiner>>

AnyError(q) ==
  /\ source[q].state # "none"
  /\ signals < MaxSignals
  /\ \E msg \in ErrMsgs :
       /\ OnError(q, msg)
       /\ source' = [source EXCEPT ![q].state = "errored", ![q].error = msg]
  /\ signals' = signals + 1
  /\ UNCHANGED <<SHOW_REASONING, combiner>>

NextSignals == \E q \in Reqs : AnyData(q) \/ AnyEnd(q) \/ AnyError(q)

InitSignals == InitOne(TRUE, {}, 0)

SpecSignals == InitSignals /\ [][NextSignals]_vars

\* ------------------------------------------------ the combiner on its own
\* one parsed event with a delta goes through the if (data.choices?.[0]?.delta)
\* block, with the flag the previous event left
Apply ==
  /\ combiner.n < MaxApply
  /\ \E d \in Deltas :
       LET t == TransformData(ParsedDelta(d), combiner.after, combiner.show)
       IN  combiner' = [show |-> combiner.show, before |-> combiner.after,
                        in |-> d, out |-> t.data.delta, after |-> t.started,
                        n |-> combiner.n + 1]
  /\ UNCHANGED <<SHOW_REASONING, buffer, reasoningStarted, hasStarted, res,
                 source, log, signals>>

NextCombiner == Apply

InitCombiner ==
  /\ SHOW_REASONING \in BOOLEAN
  /\ combiner = [NoCombiner EXCEPT !.show = SHOW_REASONING]
  /\ buffer = [q \in Reqs |-> <<>>]
  /\ reasoningStarted = [q \in Reqs |-> FALSE]
  /\ hasStarted = [q \in Reqs |-> FALSE]
  /\ res = [q \in Reqs |-> NoRes]
  /\ source = [q \in Reqs |-> NoSource]
  /\ log = [q \in Reqs |-> <<>>]
  /\ signals = 0

SpecCombiner == InitCombiner /\ [][NextCombiner]_vars

\* ------------------------------------------------------- reading the sink
Count(ts, set) == Cardinality({i \in 1..Len(ts) : ts[i] \in set})

\* the <think> markers and the </think> markers in the frames written
Opens(q) == Count(Flatten(res[q].writes), {"<think>\\n"})
Closes(q) == Count(Flatten(res[q].writes), {"\\n</think>\\n\\n", "\\n</think>"})

\* the frame carrying one content string, as the bytes on the wire
ContentFrame(text) == <<PREFIX, DOPEN, CSTR>> \o text \o <<QEND, DCLOSE, NL, NL>>

IsDone(frame) == frame = <<PREFIX, DONE, NL, NL>>

\* a frame whose payload decodes to an event with a content string
HasContent(frame) ==
  /\ Len(frame) >= 3 /\ frame[1] = PREFIX
  /\ LET d == JSONParse(SubSeq(frame, 2, Len(frame) - 2))
     IN  d.ok /\ d.kind = "delta" /\ Get(d.delta, "content").tag = "string"

\* ------------------------------------------------------------------ claims

\* C1: when the sink is closed (natural end or source error) the number of
\* <think> open markers written equals the number of </think> close markers
\* written, the auto-close frame included.
C1_ReasoningClosure ==
  \A q \in Reqs : res[q].ended => Opens(q) = Closes(q)

\* C3: for the stream reasoning "ab", content "X", [DONE], followed by the end
\* signal, the sink receives exactly: a frame with content <think>\nab, a frame
\* with content \n</think>\n\nX, the termination sentinel.
ScenarioStream == Join(<<LineReasoning, LineContent, LineDone>>, TRUE)

C3_Scenario ==
  \A q \in Reqs :
    (source[q].state = "ended" /\ source[q].sent = ScenarioStream)
      => res[q].writes = << ContentFrame(<<"<think>\\n", "ab">>),
                            ContentFrame(<<"\\n</think>\\n\\n", "X">>),
                            <<PREFIX, DONE, NL, NL>> >>

\* C4: an end signal received while the reasoning-open flag is true writes the
\* closing-marker frame, then the sentinel, and closes the sink; and no
\* closing-marker or content frame is ever written after a sentinel.
C4_EndStep ==
  \A q \in Reqs :
    (source[q].state = "flowing" /\ source'[q].state = "ended" /\ reasoningStarted[q])
      => /\ res'[q].writes = res[q].writes
                               \o << ContentFrame(<<"\\n</think>">>),
                                     <<PREFIX, DONE, NL, NL>> >>
         /\ res'[q].ended

C4_NothingAfterSentinel ==
  \A q \in Reqs : \A i, j \in 1..Len(res[q].writes) :
    (i < j /\ IsDone(res[q].writes[i])) => ~HasContent(res[q].writes[j])

C4_NaturalEnd == [][C4_EndStep]_vars /\ []C4_NothingAfterSentinel

\* the frames the data handler wrote for the lines processed so far
Emitted(q) == Flatten([i \in 1..Len(log[q]) |-> log[q][i].out])

\* the payload a written frame carries, decoded
FramePayload(frame) == JSONParse(SubSeq(frame, 2, Len(frame) - 2))

\* C2: with reasoning display on, each parsed event with a delta gives the
\* text fragment and the next flag of the truth table, where a field is
\* present when it holds a non-empty string.
TableRow(reasoning, content, open) ==
  LET r == reasoning.tag = "string" /\ reasoning.text # <<>>
      c == content.tag = "string" /\ content.text # <<>>
  IN  CASE r /\ ~c /\ ~open -> [text |-> <<"<think>\n">> \o reasoning.text, open |-> TRUE]
        [] r /\ ~c /\ open -> [text |-> reasoning.text, open |-> TRUE]
        [] r /\ c /\ ~open ->
             [text |-> <<"<think>\n">> \o reasoning.text \o <<"\n</think>\n\n">>
                         \o content.text,
              open |-> FALSE]
        [] r /\ c /\ open ->
             [text |-> reasoning.text \o <<"\n</think>\n\n">> \o content.text,
              open |-> FALSE]
        [] ~r /\ c /\ open ->
             [text |-> <<"\n</think>\n\n">> \o content.text, open |-> FALSE]
        [] ~r /\ c /\ ~open -> [text |-> content.text, open |-> FALSE]
        [] ~r /\ ~c -> [text |-> <<>>, open |-> open]

C2_TruthTable ==
  (combiner.show /\ combiner.n > 0) =>
    LET row == TableRow(Get(combiner.in, "reasoning_content"),
                        Get(combiner.in, "content"), combiner.before)
    IN  /\ combiner.after = row.open
        /\ IF row.text = <<>> THEN combiner.out = combiner.in
           ELSE Get(combiner.out, "content") = [tag |-> "string", text |-> row.text]

\* a content-only event arrived while a reasoning block was open
C2_Witness ==
  /\ combiner.show /\ combiner.n = 2 /\ combiner.before /\ ~combiner.after
  /\ ~Has(combiner.in, "reasoning_content")
  /\ Get(combiner.out, "content") = [tag |-> "string", text |-> <<"\n</think>\n\n", "X">>]

\* C5: whatever signals the source delivers, the finalizer runs at most once
\* and nothing is written to the sink after it has been closed.
C5_FinalizeOnce ==
  \A q \in Reqs : res[q].endCalls <= 1 /\ res[q].lateWrites = 0

\* C6: an error signal writes one error frame carrying the message, then the
\* sentinel, then closes the sink; the sink is closed whenever the source has
\* errored; and the other request is left untouched.
C6_ErrorStep ==
  \A q \in Reqs :
    (source[q].state = "flowing" /\ source'[q].state = "errored")
      => /\ res'[q].writes = res[q].writes
                               \o << <<PREFIX, ERRHEAD, source'[q].error, ERRTAIL, NL, NL>>,
                                     <<PREFIX, DONE, NL, NL>> >>
         /\ source'[q].error \in ErrMsgs
         /\ res'[q].ended /\ res'[q].endCalls = 1
         /\ \A o \in Reqs \ {q} :
              /\ res'[o] = res[o] /\ buffer'[o] = buffer[o]
              /\ reasoningStarted'[o] = reasoningStarted[o]
              /\ hasStarted'[o] = hasStarted[o]

C6_ClosedAfterError ==
  \A q \in Reqs :
    source[q].state = "errored"
      => /\ res[q].ended
         /\ Cardinality({i \in 1..Len(res[q].writes) :
                           Len(res[q].writes[i]) >= 2 /\ res[q].writes[i][2] = ERRHEAD}) = 1

C6_ErrorFinalization == [][C6_ErrorStep]_vars /\ []C6_ClosedAfterError

\* one request failed in the middle of a reasoning block while the other one
\* ran to its natural end
C6_Witness ==
  /\ source["r1"].state = "errored" /\ res["r1"].ended
  /\ Len(res["r1"].writes) = 3
  /\ source["r2"].state = "ended" /\ Len(res["r2"].writes) >= 2

\* C7: a prefixed line whose payload is not valid JSON is written back as the
\* raw line followed by a blank line, and the lines after it are handled as
\* usual: a sentinel line gives the sentinel, a content line its frame.
C7_PassThrough ==
  \A q \in Reqs : \A i \in 1..Len(log[q]) :
    LET e == log[q][i]
        bad(line) == HasPrefix(line) /\ ~JSONParse(Tail(line)).ok
    IN  /\ bad(e.line) => e.out = <<e.line \o <<NL, NL>>>>
        /\ (i > 1 /\ bad(log[q][i-1].line)) =>
             /\ e.line = <<PREFIX, DONE>> => e.out = << <<PREFIX, DONE, NL, NL>> >>
             /\ e.line = LineContent =>
                  e.out = << ContentFrame(IF e.before THEN <<"\\n</think>\\n\\n", "X">>
                                          ELSE <<"X">>) >>

\* C8: in both modes the outbound delta of a parsed event has no
\* reasoning_content field.
C8_ReasoningStripped ==
  combiner.n > 0 => ~Has(combiner.out, "reasoning_content")

C10_TerminateIffSentinel ==
  \A q \in Reqs : \A i \in 1..Len(log[q]) :
    LET e == log[q][i]
    IN  HasPrefix(e.line) =>
          /\ (e.class = "terminate") <=> (e.line = <<PREFIX, DONE>>)
          /\ JSONParse(Tail(e.line)).kind \in {"delta", "nodelta"} => e.class = "parsed"

\* the lines given to forEach so far
Yielded(q) == [i \in 1..Len(log[q]) |-> log[q][i].line]

\* request q stands where one chunk p-processed from the start would leave it
SameAsOneChunk(q, text, p) ==
  /\ Yielded(q) = CompleteLines(text)
  /\ Emitted(q) = p.out
  /\ reasoningStarted[q] = p.started
  /\ buffer[q] = Remainder(text)

\* C11: whatever the chunk boundaries, the lines the framer has yielded, the
\* frames the data handler has written, the flag and the remainder are those
\* that the bytes received so far give when they arrive as one chunk.
C11_SplitInvariance ==
  \A q \in Reqs :
    source[q].state # "none" =>
      SameAsOneChunk(q, ChunkToString(source[q].sent),
                     ProcessLines(CompleteLines(ChunkToString(source[q].sent)),
                                  FALSE, SHOW_REASONING))

\* the UTF-8 bytes of a text: the inverse of decoding
EncodeChar(c) ==
  IF c = EACUTE THEN <<UTF8LEAD, UTF8CONT>>
  ELSE IF c = REPLACEMENT THEN <<"0xEF", "0xBF", "0xBD">>
  ELSE <<c>>

Utf8Bytes(text) == Flatten([i \in 1..Len(text) |-> EncodeChar(text[i])])

\* C12: after any sequence of chunks, the lines yielded so far, each followed
\* by a newline, and then the remainder in the line buffer are byte for byte
\* the chunks received; one line is yielded per newline received, so a chunk
\* that completes no line yields nothing; and when the input is only complete
\* lines, the yielded lines are the input split on newline, in order, and the
\* remainder is empty.
C12_FramingConservation ==
  \A q \in Reqs :
    source[q].state # "none" =>
      /\ Utf8Bytes(Join(Yielded(q), TRUE) \o buffer[q]) = source[q].sent
      /\ Len(Yielded(q)) = Count(source[q].sent, {NL})
      /\ (source[q].sent # <<>> /\ Last(source[q].sent) = NL) =>
            /\ buffer[q] = <<>>
            /\ [i \in 1..Len(Yielded(q)) |-> Utf8Bytes(Yielded(q)[i])]
                 = Front(Split(source[q].sent))

\* C13: once the client of a request has disconnected, no signal of the
\* source makes the transcoder write to the sink or process a chunk: the
\* response, the line buffer, the flag and the record of processed lines of
\* that request stay as they are.
C13_StepAfterDisconnect ==
  \A q \in Reqs :
    res[q].disconnected =>
      /\ res'[q] = res[q]
      /\ buffer'[q] = buffer[q]
      /\ reasoningStarted'[q] = reasoningStarted[q]
      /\ log'[q] = log[q]

C13_Cancellation == [][C13_StepAfterDisconnect]_vars

\* the frames request q writes when it runs alone: p is its input processed
\* from the start, followed by the frames of its end or error handler
AloneWrites(q, p) ==
  p.out \o
    (CASE source[q].state = "ended" ->
            (IF p.started THEN <<ContentFrame(<<"\\n</think>">>)>> ELSE <<>>)
              \o << <<PREFIX, DONE, NL, NL>> >>
       [] source[q].state = "errored" ->
            << <<PREFIX, ERRHEAD, source[q].error, ERRTAIL, NL, NL>>,
               <<PREFIX, DONE, NL, NL>> >>
       [] OTHER -> <<>>)

\* C14: with two requests streaming at once, in any interleaving of their
\* signals, the frames written to each sink are those the request writes when
\* it runs alone on the same input ...
C14_WritesAsAlone ==
  \A q \in Reqs :
    res[q].writes =
      AloneWrites(q, ProcessLines(CompleteLines(ChunkToString(source[q].sent)),
                                  FALSE, SHOW_REASONING))

\* ... and a signal of one request leaves the line buffer, the flag, the
\* first-chunk mark and the sink of the other request as they were.
C14_StepTouchesOne ==
  \A q \in Reqs :
    source'[q] # source[q] =>
      \A o \in Reqs \ {q} :
        /\ buffer'[o] = buffer[o]
        /\ reasoningStarted'[o] = reasoningStarted[o]
        /\ hasStarted'[o] = hasStarted[o]
        /\ res'[o] = res[o]

C14_Isolation == []C14_WritesAsAlone /\ [][C14_StepTouchesOne]_vars

\* one request has written its reasoning frame and its block is open while
\* the other holds the first half of a content line in its buffer
C14_Witness ==
  /\ reasoningStarted["r1"] /\ Len(res["r1"].writes) = 1
  /\ source["r1"].state = "flowing"
  /\ source["r2"].state = "flowing"
  /\ buffer["r2"] # <<>> /\ buffer["r2"][Len(buffer["r2"])] = CSTR
  /\ res["r2"].writes = <<>>

\* C15: in every reachable state of a request, the <think> markers written so
\* far minus the </think> markers written so far is 1 when the reasoning-open
\* flag is true and 0 when it is false.
C15_MarkerAlternation ==
  \A q \in Reqs :
    Opens(q) - Closes(q) = (IF reasoningStarted[q] THEN 1 ELSE 0)

\* the complete lines received so far that are not blank and carry the prefix
PrefixedLines(q) ==
  SelectSeq(CompleteLines(source[q].sent), LAMBDA l : l # <<>> /\ l[1] = PREFIX)

\* the frames the end or error handler has written
FinalFrames(q) ==
  CASE source[q].state = "ended" -> IF reasoningStarted[q] THEN 2 ELSE 1
    [] source[q].state = "errored" -> 2
    [] OTHER -> 0

EndsWith(text, tail) ==
  /\ Len(text) >= Len(tail)
  /\ SubSeq(text, Len(text) - Len(tail) + 1, Len(text)) = tail

\* the text an inbound delta carries last: its content, else its reasoning
LastText(delta) ==
  LET c == Get(delta, "content")
      r == Get(delta, "reasoning_content")
  IN  IF c.tag = "string" /\ c.text # <<>> THEN c.text
      ELSE IF r.tag = "string" /\ r.text # <<>> THEN r.text
      ELSE <<>>

\* frame is one outbound frame made from line: a single event followed by a
\* blank line, which is the sentinel (only for a line carrying the sentinel
\* token), the raw line, or the line's JSON event re-serialized with the
\* line's own text at the end of its content
FrameOf(line, frame) ==
  /\ Len(frame) >= 3 /\ frame[1] = PREFIX
  /\ Count(frame, {NL}) = 2 /\ SubSeq(frame, Len(frame) - 1, Len(frame)) = <<NL, NL>>
  /\ Count(frame, {PREFIX}) = 1
  /\ \/ frame = <<PREFIX, DONE, NL, NL>> /\ Count(line, {DONE}) > 0
     \/ frame = line \o <<NL, NL>>
     \/ /\ JSONParse(Tail(line)).ok /\ FramePayload(frame).ok
        /\ FramePayload(frame).kind = JSONParse(Tail(line)).kind
        /\ LastText(JSONParse(Tail(line)).delta) # <<>> =>
             EndsWith(Get(FramePayload(frame).delta, "content").text,
                      LastText(JSONParse(Tail(line)).delta))

OneFramePerLine(lines, writes, final) ==
  /\ Len(writes) = Len(lines) + final
  /\ \A k \in 1..Len(lines) : FrameOf(lines[k], writes[k])

\* C16: the sink receives exactly one frame for each non-blank line that
\* begins with the prefix, in the order of the lines, one frame per write;
\* blank lines and lines without the prefix give no write and leave the flag
\* as it was.
C16_OneToOne ==
  \A q \in Reqs :
    source[q].state # "none" =>
      /\ OneFramePerLine(PrefixedLines(q), res[q].writes, FinalFrames(q))
      /\ \A i \in 1..Len(log[q]) :
           (IsBlank(log[q][i].line) \/ ~HasPrefix(log[q][i].line)) =>
             /\ log[q][i].out = <<>>
             /\ log[q][i].after = log[q][i].before

\* a reasoning line, a comment line and a malformed line came in this order
\* and the sink holds the reasoning frame followed by the raw malformed line
C16_Witness ==
  /\ source["r1"].state = "flowing"
  /\ Yielded("r1") = <<LineReasoning, LineComment, LineJunk>>
  /\ Len(res["r1"].writes) = 2
  /\ res["r1"].writes[2] = <<PREFIX, JUNK, NL, NL>>

\* a prefixed line whose payload is not valid JSON
Malformed(line) == line # <<>> /\ line[1] = PREFIX /\ ~JSONParse(Tail(line)).ok

\* the frames written for the lines of the record that are not malformed
ValidOut(q) ==
  Flatten([i \in 1..Len(log[q]) |->
             IF Malformed(log[q][i].line) THEN <<>> ELSE log[q][i].out])

\* request q stands, for its well-formed lines, where p-processing them alone
\* would leave it
AsWithout(q, p) == ValidOut(q) = p.out /\ reasoningStarted[q] = p.started

\* C17: a prefixed line whose payload fails to parse leaves the reasoning-open
\* flag as it was and the line buffer as the framer left it, and the frames
\* written for the other lines, markers included, and the flag are those of
\* the same stream with the malformed lines taken out.
C17_UnparseableNoEffect ==
  \A q \in Reqs :
    source[q].state # "none" =>
      /\ \A i \in 1..Len(log[q]) :
           Malformed(log[q][i].line) => log[q][i].after = log[q][i].before
      /\ buffer[q] = Remainder(source[q].sent)
      /\ AsWithout(q, ProcessLines(SelectSeq(Yielded(q), LAMBDA l : ~Malformed(l)),
                                   FALSE, SHOW_REASONING))

\* a malformed line arrived inside an open reasoning block and the content
\* line after it still got the close marker
C17_Witness ==
  /\ Yielded("r1") = <<LineReasoning, LineJunk, LineContent>>
  /\ log["r1"][2].before /\ log["r1"][2].after
  /\ res["r1"].writes[2] = <<PREFIX, JUNK, NL, NL>>
  /\ res["r1"].writes[3] = ContentFrame(<<"\\n</think>\\n\\n", "X">>)
  /\ ~reasoningStarted["r1"]

\* C18: the four event-stream headers are set when the first frame is
\* written; flushHeaders runs at most once per request, exactly when the
\* first chunk has arrived, and before any frame is written.
C18_HeaderCommit ==
  \A q \in Reqs :
    /\ res[q].writes # <<>> =>
         res[q].headersAtFirstWrite =
           {"Content-Type", "Cache-Control", "Connection", "X-Accel-Buffering"}
    /\ res[q].flushed <= 1
    /\ (res[q].flushed = 1) <=> hasStarted[q]
    /\ (res[q].flushed = 1) <=> (source[q].sent # <<>>)
    /\ res[q].flushed = 1 => res[q].writesAtFlush = 0

\* the first chunks carried a whole sentinel line: the headers were flushed
\* once, before its frame was written, and more chunks followed
C18_Witness ==
  /\ res["r1"].flushed = 1 /\ res["r1"].writesAtFlush = 0
  /\ Len(res["r1"].writes) >= 2
  /\ res["r1"].writes[1] = <<PREFIX, DONE, NL, NL>>
  /\ Len(source["r1"].sent) > MaxChunk

\* the frames a finalizer may write
FinalizerFrames ==
  {ContentFrame(<<"\\n</think>">>), <<PREFIX, DONE, NL, NL>>}
    \cup {<<PREFIX, ERRHEAD, msg, ERRTAIL, NL, NL>> : msg \in {"aborted", "socket hang up"}}

\* C19: the end or error signal writes only the frames of the finalizer and
\* processes no line: the retained remainder stays in the buffer and gives no
\* write ...
C19_FinalStep ==
  \A q \in Reqs :
    (source[q].state = "flowing" /\ source'[q].state # "flowing") =>
      /\ log'[q] = log[q] /\ buffer'[q] = buffer[q]
      /\ Len(res'[q].writes) > Len(res[q].writes)
      /\ SubSeq(res'[q].writes, 1, Len(res[q].writes)) = res[q].writes
      /\ \A k \in (Len(res[q].writes) + 1)..Len(res'[q].writes) :
           res'[q].writes[k] \in FinalizerFrames

\* ... so that at any time the lines transcoded are exactly those whose
\* terminating newline has arrived.
C19_OnlyTerminatedLines ==
  \A q \in Reqs :
    source[q].state # "none" =>
      /\ Yielded(q) = CompleteLines(source[q].sent)
      /\ Len(Yielded(q)) = Count(source[q].sent, {NL})

C19_RemainderDiscarded == [][C19_FinalStep]_vars /\ []C19_OnlyTerminatedLines

\* the stream ended inside an open reasoning block with an unterminated
\* content line in the buffer: the block was closed by the finalizer and the
\* content never written
C19_Witness ==
  /\ source["r1"].state = "ended"
  /\ source["r1"].sent = LineReasoning \o <<NL>> \o LineContent
  /\ buffer["r1"] = LineContent
  /\ res["r1"].writes = << ContentFrame(<<"<think>\\n", "ab">>),
                            ContentFrame(<<"\\n</think>">>),
                            <<PREFIX, DONE, NL, NL>> >>

\* C20: once the source has signalled end or error the sink is closed and
\* the last frame written to it is the termination sentinel, whatever lines
\* came before, the backend's own sentinel line included ...
C20_ClosedWithSentinel ==
  \A q \in Reqs :
    (source[q].state \in {"ended", "errored"} \/ res[q].ended) =>
      /\ res[q].ended
      /\ res[q].writes # <<>>
      /\ res[q].writes[Len(res[q].writes)] = <<PREFIX, DONE, NL, NL>>

\* ... so that, the source being sure to signal end or error, the sink of a
\* streaming request is closed in the end.
C20_EventuallyClosed ==
  \A q \in Reqs : (source[q].state = "flowing") ~> res[q].ended

C20_SentinelLast == []C20_ClosedWithSentinel /\ C20_EventuallyClosed

\* the backend sent its own sentinel line inside an open reasoning block and
\* ended: the sentinel was written twice, the second time last
C20_Witness ==
  /\ source["r1"].state = "ended" /\ res["r1"].ended
  /\ source["r1"].sent = LineReasoning \o <<NL>> \o LineDone \o <<NL>>
  /\ Len(res["r1"].writes) = 4
  /\ res["r1"].writes[2] = <<PREFIX, DONE, NL, NL>>
  /\ res["r1"].writes[4] = <<PREFIX, DONE, NL, NL>>

====
